---- MODULE Spec2Model ----
(***************************************************************************)
(* A model of the messageCard package: MessageCard (message_card.go) and   *)
(* TeamsClient.Send / sendWithContext (the sender file).  Strings are TLA+ *)
(* strings; Len, SubSeq and \o act on them character by character.         *)
(***************************************************************************)
EXTENDS Integers, Sequences, FiniteSets, TLC

\* Callers that share one TeamsClient in ConcSpec.
NumCallers == 2

VARIABLES
    client,     \* the shared TeamsClient: its httpClient field
    card,       \* card[p]: the caller's MessageCard, payload buffer included
    url,        \* url[p]: the webhookURL argument of the current Send
    pc,         \* pc[p]: where the caller's Send call stands
    ctx,        \* ctx[p]: the timeout context of the current Send
    endpointUp, \* endpointUp[p]: whether the endpoint answers this request at all
    request,    \* request[p]: the http.Request built by prepareRequest
    response,   \* response[p]: the http.Response returned by Do, and its Body
    outcome,    \* outcome[p]: the error value Send returns
    trace       \* trace[p]: the steps sendWithContext has run in this call, and
                \* whether its Prepare found a partly read payload

vars == <<client, card, url, pc, ctx, endpointUp, request, response, outcome, trace>>

Procs == DOMAIN pc

----------------------------------------------------------------------------
(* Strings *)

HasPrefixAt(s, i, lit) ==
    /\ i >= 1
    /\ i + Len(lit) - 1 <= Len(s)
    /\ SubSeq(s, i, i + Len(lit) - 1) = lit

CharAt(s, i) == SubSeq(s, i, i)

\* unicode.IsSpace on the characters the model uses
IsSpace(c) == c \in {" ", "\t", "\n", "\r"}

RECURSIVE TrimLeft(_)
TrimLeft(s) ==
    IF Len(s) > 0 /\ IsSpace(CharAt(s, 1)) THEN TrimLeft(SubSeq(s, 2, Len(s))) ELSE s

RECURSIVE TrimRight(_)
TrimRight(s) ==
    IF Len(s) > 0 /\ IsSpace(CharAt(s, Len(s))) THEN TrimRight(SubSeq(s, 1, Len(s) - 1)) ELSE s

\* strings.TrimSpace
TrimSpace(s) == TrimRight(TrimLeft(s))

----------------------------------------------------------------------------
(* MessageCard *)

NoError == "nil"
ErrTitleRequired == "invalid message card: title required"
ErrTextRequired == "invalid message card: text required"

\* a nil *bytes.Buffer
NilBuffer == [alloc |-> FALSE, buf |-> "", off |-> 0]

CreateMessageCard ==
    [Type |-> "MessageCard", Context |-> "https://schema.org/extensions",
     Title |-> "", Text |-> "", Color |-> "", payload |-> NilBuffer]

ValidateTextFirst(c) ==
    IF c.Text = "" THEN ErrTextRequired
    ELSE IF c.Title = "" THEN ErrTitleRequired
    ELSE NoError

\* MessageCard.Validate: the error it returns
Validate(c) ==
    IF c.Title = "" THEN ErrTitleRequired
    ELSE IF c.Text = "" THEN ErrTextRequired
    ELSE NoError

\* one "name":"value" member; the model's field values need no escaping
Member(name, value) == "\"" \o name \o "\":\"" \o value \o "\""

OmitEmpty(name, value) == IF value = "" THEN "" ELSE "," \o Member(name, value)

\* json.Marshal(card): the struct tags of MessageCard
Marshal(c) ==
    "{" \o Member("@type", c.Type) \o "," \o Member("@context", c.Context)
        \o OmitEmpty("title", c.Title) \o OmitEmpty("text", c.Text)
        \o OmitEmpty("color", c.Color) \o "}"

\* bytes.Buffer
BufferReset(b) == [b EXCEPT !.buf = "", !.off = 0]
BufferWrite(b, data) == [b EXCEPT !.buf = @ \o data]
\* Bytes(): the unread portion
BufferBytes(b) == SubSeq(b.buf, b.off + 1, Len(b.buf))
\* Read of up to n bytes: the read offset advances
BufferRead(b, n) ==
    [b EXCEPT !.off = IF @ + n >= Len(b.buf) THEN Len(b.buf) ELSE @ + n]

PrepareNoReset(c) ==
    [c EXCEPT !.payload =
        BufferWrite(IF c.payload.alloc THEN c.payload
                    ELSE [alloc |-> TRUE, buf |-> "", off |-> 0], Marshal(c))]

\* MessageCard.Prepare: the card afterwards (json.Marshal of string fields and
\* Buffer.Write return no error)
Prepare(c) ==
    [c EXCEPT !.payload =
        BufferWrite(IF c.payload.alloc THEN BufferReset(c.payload)
                    ELSE [alloc |-> TRUE, buf |-> "", off |-> 0], Marshal(c))]

PrepareErr(c) == NoError

PayloadOfFirstCard(cards, p) == cards[1].payload

\* MessageCard.Payload: the reader over the card's buffer
Payload(cards, p) == cards[p].payload

----------------------------------------------------------------------------
(* TeamsClient: validation of the webhook URL *)

ExpectedEndpointResponseText == "1"

ErrParse == "could not parse webhook URL"
ErrWebHookURLPattern == "the webhook URL does not match the expected pattern"
ErrInvalidResponseText == "message unsuccessful, invalid webhook URL response text"

\* a byte below 0x20 or 0x7f, among the characters the model uses
IsCTL(c) == c \in {"\t", "\n", "\r"}

\* url.Parse returns an error: a control character anywhere, or no scheme
\* before the first colon
ParseFails(s) ==
    \/ \E i \in 1..Len(s) : IsCTL(CharAt(s, i))
    \/ HasPrefixAt(s, 1, ":")

\* \.office(?:365)?\.com at position i
MatchOfficeCom(s, i) ==
    /\ HasPrefixAt(s, i, ".office")
    /\ \/ HasPrefixAt(s, i + 7, ".com")
       \/ HasPrefixAt(s, i + 7, "365.com")

\* regexp.MatchString(WebhookURLValidPattern, s), with
\* ^https:\/\/(?:.*\.webhook|outlook)\.office(?:365)?\.com : anchored at
\* the start only, and .* runs over any characters but a newline
MatchWebhookURLValidPattern(s) ==
    /\ HasPrefixAt(s, 1, "https://")
    /\ \/ \E k \in 9..Len(s) :
            /\ \A j \in 9..(k - 1) : CharAt(s, j) # "\n"
            /\ HasPrefixAt(s, k, ".webhook")
            /\ MatchOfficeCom(s, k + 8)
       \/ /\ HasPrefixAt(s, 9, "outlook")
          /\ MatchOfficeCom(s, 16)

\* TeamsClient.ValidateWebhook
ValidateWebhook(webhookURL) ==
    IF ParseFails(webhookURL) THEN ErrParse
    ELSE IF MatchWebhookURLValidPattern(webhookURL) THEN NoError
    ELSE ErrWebHookURLPattern

----------------------------------------------------------------------------
(* The response and the error Send returns *)

NoResponse == [present |-> FALSE, StatusCode |-> 0, Body |-> "", readOK |-> TRUE, closed |-> 0]
NoRequest == [present |-> FALSE, url |-> "", body |-> "", sent |-> 0]

\* an error value: the message sendWithContext wraps it in, its cause, and
\* the status and body text it carries
Err(wrap, cause, status, body) ==
    [wrap |-> wrap, cause |-> cause, StatusCode |-> status, Body |-> body]

Pending == Err("pending", "pending", 0, "")
Nil == Err(NoError, NoError, 0, "")

ErrRead == "read error"
ErrStatus == "error on code"
ErrDeadline == "context deadline exceeded"
ErrTransport == "transport failure"

processResponseGreater(resp) ==
    IF ~resp.readOK THEN Err("", ErrRead, 0, "")
    ELSE IF resp.StatusCode > 299 THEN Err("", ErrStatus, resp.StatusCode, resp.Body)
    ELSE IF resp.Body # TrimSpace(ExpectedEndpointResponseText)
         THEN Err("", ErrInvalidResponseText, 0, resp.Body)
    ELSE Nil

\* processResponse: the error it returns (Nil for none)
processResponse(resp) ==
    IF ~resp.readOK THEN Err("", ErrRead, 0, "")
    ELSE IF resp.StatusCode >= 299 THEN Err("", ErrStatus, resp.StatusCode, resp.Body)
    ELSE IF resp.Body # TrimSpace(ExpectedEndpointResponseText)
         THEN Err("", ErrInvalidResponseText, 0, resp.Body)
    ELSE Nil

\* fmt.Errorf("<wrap>: %w", err)
Wrap(wrap, e) == [e EXCEPT !.wrap = wrap]

----------------------------------------------------------------------------
(* The caller, between Send calls (main.go and the package's public API) *)

Step(name, e) == [step |-> name, ok |-> e = NoError, partlyRead |-> FALSE]

\* the buffer a Prepare finds holds a payload that was read in part
PartlyRead(b) == b.alloc /\ b.off > 0 /\ BufferBytes(b) # ""

\* card.Title = ..., card.Text = ...: the exported fields are assigned directly
SetFields(p, ty, title, text, color) ==
    /\ pc[p] = "idle"
    /\ card' = [card EXCEPT ![p].Type = ty, ![p].Title = title,
                            ![p].Text = text, ![p].Color = color]
    /\ UNCHANGED <<client, url, pc, ctx, endpointUp, request, response, outcome, trace>>

\* card.Prepare() called by the caller itself
CallPrepare(p) ==
    /\ pc[p] = "idle"
    /\ card' = [card EXCEPT ![p] = Prepare(@)]
    /\ UNCHANGED <<client, url, pc, ctx, endpointUp, request, response, outcome, trace>>

\* a Read of n bytes from the reader card.Payload() returned
ReadPayload(p, n) ==
    /\ pc[p] = "idle"
    /\ card[p].payload.alloc
    /\ BufferBytes(Payload(card, p)) # ""
    /\ card' = [card EXCEPT ![p].payload = BufferRead(@, n)]
    /\ UNCHANGED <<client, url, pc, ctx, endpointUp, request, response, outcome, trace>>

SendCallNoTimeout(p, webhookURL, up) ==
    /\ pc[p] = "idle"
    /\ pc' = [pc EXCEPT ![p] = "validateURL"]
    /\ url' = [url EXCEPT ![p] = webhookURL]
    /\ endpointUp' = [endpointUp EXCEPT ![p] = up]
    /\ UNCHANGED <<client, card, ctx, request, response, outcome, trace>>

\* client.Send(webhookURL, card) is entered: context.WithTimeout starts the timer
SendCall(p, webhookURL, up) ==
    /\ pc[p] = "idle"
    /\ ctx' = [ctx EXCEPT ![p] = "active"]
    /\ pc' = [pc EXCEPT ![p] = "validateURL"]
    /\ url' = [url EXCEPT ![p] = webhookURL]
    /\ endpointUp' = [endpointUp EXCEPT ![p] = up]
    /\ UNCHANGED <<client, card, request, response, outcome, trace>>

\* the caller has the error Send returned; the call's values go out of scope
CallerReturns(p) ==
    /\ pc[p] = "done"
    /\ pc' = [pc EXCEPT ![p] = "idle"]
    /\ url' = [url EXCEPT ![p] = ""]
    /\ ctx' = [ctx EXCEPT ![p] = "none"]
    /\ endpointUp' = [endpointUp EXCEPT ![p] = TRUE]
    /\ request' = [request EXCEPT ![p] = NoRequest]
    /\ response' = [response EXCEPT ![p] = NoResponse]
    /\ outcome' = [outcome EXCEPT ![p] = Pending]
    /\ trace' = [trace EXCEPT ![p] = <<>>]
    /\ UNCHANGED <<client, card>>

----------------------------------------------------------------------------
(* sendWithContext, one step at a time *)

\* WebhookSendTimeout passes before cancel() is called
TimerFires(p) ==
    /\ ctx[p] = "active"
    /\ ctx' = [ctx EXCEPT ![p] = "expired"]
    /\ UNCHANGED <<client, card, url, pc, endpointUp, request, response, outcome, trace>>

StepValidateWebhook(p) ==
    /\ pc[p] = "validateURL"
    /\ LET e == ValidateWebhook(url[p]) IN
        /\ trace' = [trace EXCEPT ![p] = Append(@, Step("ValidateWebhook", e))]
        /\ IF e # NoError
           THEN /\ outcome' = [outcome EXCEPT ![p] = Err("webhook URL validation failed", e, 0, "")]
                /\ pc' = [pc EXCEPT ![p] = "cancel"]
           ELSE /\ pc' = [pc EXCEPT ![p] = "validateMessage"]
                /\ UNCHANGED outcome
    /\ UNCHANGED <<client, card, url, ctx, endpointUp, request, response>>

StepValidateIgnoreErr(p) ==
    /\ pc[p] = "validateMessage"
    /\ LET e == Validate(card[p]) IN
        /\ trace' = [trace EXCEPT ![p] = Append(@, Step("Validate", e))]
        /\ pc' = [pc EXCEPT ![p] = "prepare"]
        /\ UNCHANGED outcome
    /\ UNCHANGED <<client, card, url, ctx, endpointUp, request, response>>

StepValidate(p) ==
    /\ pc[p] = "validateMessage"
    /\ LET e == Validate(card[p]) IN
        /\ trace' = [trace EXCEPT ![p] = Append(@, Step("Validate", e))]
        /\ IF e # NoError
           THEN /\ outcome' = [outcome EXCEPT ![p] = Err("failed to validate message", e, 0, "")]
                /\ pc' = [pc EXCEPT ![p] = "cancel"]
           ELSE /\ pc' = [pc EXCEPT ![p] = "prepare"]
                /\ UNCHANGED outcome
    /\ UNCHANGED <<client, card, url, ctx, endpointUp, request, response>>

StepPrepare(p) ==
    /\ pc[p] = "prepare"
    /\ LET e == PrepareErr(card[p]) IN
        /\ trace' = [trace EXCEPT ![p] =
               Append(@, [Step("Prepare", e) EXCEPT !.partlyRead = PartlyRead(card[p].payload)])]
        /\ IF e # NoError
           THEN /\ outcome' = [outcome EXCEPT ![p] = Err("failed to prepare message", e, 0, "")]
                /\ pc' = [pc EXCEPT ![p] = "cancel"]
                /\ UNCHANGED card
           ELSE /\ card' = [card EXCEPT ![p] = Prepare(@)]
                /\ pc' = [pc EXCEPT ![p] = "prepareRequest"]
                /\ UNCHANGED outcome
    /\ UNCHANGED <<client, url, ctx, endpointUp, request, response>>

\* prepareRequest(ctxt, webhookURL, message.Payload()): http.NewRequestWithContext
\* takes the buffer's unread bytes as the body and parses the URL again
StepPrepareRequest(p) ==
    /\ pc[p] = "prepareRequest"
    /\ LET e == IF ParseFails(url[p]) THEN ErrParse ELSE NoError IN
        /\ trace' = [trace EXCEPT ![p] = Append(@, Step("prepareRequest", e))]
        /\ IF e # NoError
           THEN /\ outcome' = [outcome EXCEPT ![p] = Err("failed to prepare request", e, 0, "")]
                /\ pc' = [pc EXCEPT ![p] = "cancel"]
                /\ UNCHANGED request
           ELSE /\ request' = [request EXCEPT ![p] =
                       [present |-> TRUE, url |-> url[p],
                        body |-> BufferBytes(Payload(card, p)), sent |-> 0]]
                /\ pc' = [pc EXCEPT ![p] = "do"]
                /\ UNCHANGED outcome
    /\ UNCHANGED <<client, card, url, ctx, endpointUp, response>>

\* client.HTTPClient().Do(request) is entered
StepDo(p) ==
    /\ pc[p] = "do"
    /\ request' = [request EXCEPT ![p].sent = @ + 1]
    /\ pc' = [pc EXCEPT ![p] = "inflight"]
    /\ UNCHANGED <<client, card, url, ctx, endpointUp, response, outcome, trace>>

\* Do returns a response
EndpointResponds(p, status, body, readOK) ==
    /\ pc[p] = "inflight"
    /\ endpointUp[p]
    /\ ctx[p] = "active"
    /\ trace' = [trace EXCEPT ![p] = Append(@, Step("Do", NoError))]
    /\ response' = [response EXCEPT ![p] =
           [present |-> TRUE, StatusCode |-> status, Body |-> body,
            readOK |-> readOK, closed |-> 0]]
    /\ pc' = [pc EXCEPT ![p] = "processResponse"]
    /\ UNCHANGED <<client, card, url, ctx, endpointUp, request, outcome>>

TransportFailsRetry(p) ==
    /\ pc[p] = "inflight"
    /\ endpointUp[p]
    /\ ctx[p] = "active"
    /\ trace' = [trace EXCEPT ![p] = Append(@, Step("Do", ErrTransport))]
    /\ pc' = [pc EXCEPT ![p] = "do"]
    /\ UNCHANGED <<client, card, url, ctx, endpointUp, request, response, outcome>>

\* Do returns an error of the transport
TransportFails(p) ==
    /\ pc[p] = "inflight"
    /\ endpointUp[p]
    /\ ctx[p] = "active"
    /\ trace' = [trace EXCEPT ![p] = Append(@, Step("Do", ErrTransport))]
    /\ outcome' = [outcome EXCEPT ![p] = Err("failed to send message", ErrTransport, 0, "")]
    /\ pc' = [pc EXCEPT ![p] = "cancel"]
    /\ UNCHANGED <<client, card, url, ctx, endpointUp, request, response>>

\* Do returns the context's error: the deadline passed
DoTimeout(p) ==
    /\ pc[p] = "inflight"
    /\ ctx[p] = "expired"
    /\ trace' = [trace EXCEPT ![p] = Append(@, Step("Do", ErrDeadline))]
    /\ outcome' = [outcome EXCEPT ![p] = Err("failed to send message", ErrDeadline, 0, "")]
    /\ pc' = [pc EXCEPT ![p] = "cancel"]
    /\ UNCHANGED <<client, card, url, ctx, endpointUp, request, response>>

\* what io.ReadAll(response.Body) meets: past the deadline the read may fail
BodyAsRead(p) ==
    {response[p]} \cup
        (IF ctx[p] = "expired" THEN {[response[p] EXCEPT !.readOK = FALSE]} ELSE {})

StepProcessResponseCloseOnSuccess(p) ==
    /\ pc[p] = "processResponse"
    /\ \E resp \in BodyAsRead(p) :
        LET e == processResponse(resp) IN
        /\ response' = [response EXCEPT ![p] = resp]
        /\ trace' = [trace EXCEPT ![p] = Append(@, Step("processResponse", e.cause))]
        /\ outcome' = [outcome EXCEPT ![p] =
               IF e = Nil THEN Nil ELSE Wrap("failed to process response", e)]
        /\ pc' = [pc EXCEPT ![p] = IF e = Nil THEN "close" ELSE "cancel"]
    /\ UNCHANGED <<client, card, url, ctx, endpointUp, request>>

\* the deferred Close is registered, then processResponse(response) decides
StepProcessResponse(p) ==
    /\ pc[p] = "processResponse"
    /\ \E resp \in BodyAsRead(p) :
        LET e == processResponse(resp) IN
        /\ response' = [response EXCEPT ![p] = resp]
        /\ trace' = [trace EXCEPT ![p] = Append(@, Step("processResponse", e.cause))]
        /\ outcome' = [outcome EXCEPT ![p] =
               IF e = Nil THEN Nil ELSE Wrap("failed to process response", e)]
        /\ pc' = [pc EXCEPT ![p] = "close"]
    /\ UNCHANGED <<client, card, url, ctx, endpointUp, request>>

\* sendWithContext returns: the deferred response.Body.Close()
StepClose(p) ==
    /\ pc[p] = "close"
    /\ response' = [response EXCEPT ![p].closed = @ + 1]
    /\ pc' = [pc EXCEPT ![p] = "cancel"]
    /\ UNCHANGED <<client, card, url, ctx, endpointUp, request, outcome, trace>>

\* Send returns: the deferred cancel() releases the timeout context
StepCancel(p) ==
    /\ pc[p] = "cancel"
    /\ ctx' = [ctx EXCEPT ![p] = "cancelled"]
    /\ pc' = [pc EXCEPT ![p] = "done"]
    /\ UNCHANGED <<client, card, url, endpointUp, request, response, outcome, trace>>

\* the steps of caller p's goroutine inside Send
SendStep(p) ==
    \/ StepValidateWebhook(p)
    \/ StepValidate(p)
    \/ StepPrepare(p)
    \/ StepPrepareRequest(p)
    \/ StepDo(p)
    \/ DoTimeout(p)
    \/ StepProcessResponse(p)
    \/ StepClose(p)
    \/ StepCancel(p)

----------------------------------------------------------------------------
(* Inputs *)

URLs ==
    { "https://foo.webhook.office.com/webhookb2/x",
      "https://outlook.office365.com/webhook/x",
      "http://foo.webhook.office.com",
      "https://evil.com/webhook",
      "https://evil.com/a.webhook.office.com",
      "https://outlook.office.com.evil.com/",
      "https://outlook.office.com/\n",
      "://outlook.office.com" }

Statuses == {200, 298, 299, 400}
Bodies == {"1", "1\n", " 1 ", "0", ""}
Types == {"MessageCard", ""}
Titles == {"", "T"}
Texts == {"", "x"}
Colors == {"", "red"}

\* the inputs of the callers that run side by side
ConcURLs == {"https://foo.webhook.office.com/webhookb2/x", "https://evil.com/webhook"}
ConcStatuses == {200, 400}
ConcBodies == {"1", "0"}
TitleOf(p) == "T" \o ToString(p)

----------------------------------------------------------------------------
(* Specifications *)

\* CreateTeamsClient() and one CreateMessageCard() per caller
InitWith(procs) ==
    /\ client = [httpClient |-> "http.Client{}"]
    /\ card = [p \in procs |-> CreateMessageCard]
    /\ url = [p \in procs |-> ""]
    /\ pc = [p \in procs |-> "idle"]
    /\ ctx = [p \in procs |-> "none"]
    /\ endpointUp = [p \in procs |-> TRUE]
    /\ request = [p \in procs |-> NoRequest]
    /\ response = [p \in procs |-> NoResponse]
    /\ outcome = [p \in procs |-> Pending]
    /\ trace = [p \in procs |-> <<>>]

Init == InitWith({1})

Next ==
    \/ \E p \in Procs, ty \in Types, t \in Titles, x \in Texts, c \in Colors :
           SetFields(p, ty, t, x, c)
    \/ \E p \in Procs : CallPrepare(p)
    \/ \E p \in Procs : \E n \in {40, Len(card[p].payload.buf)} : ReadPayload(p, n)
    \/ \E p \in Procs, u \in URLs, up \in BOOLEAN : SendCall(p, u, up)
    \/ \E p \in Procs : TimerFires(p)
    \/ \E p \in Procs : StepValidateWebhook(p)
    \/ \E p \in Procs : StepValidate(p)
    \/ \E p \in Procs : StepPrepare(p)
    \/ \E p \in Procs : StepPrepareRequest(p)
    \/ \E p \in Procs : StepDo(p)
    \/ \E p \in Procs, st \in Statuses, b \in Bodies, ok \in BOOLEAN :
           EndpointResponds(p, st, b, ok)
    \/ \E p \in Procs : TransportFails(p)
    \/ \E p \in Procs : DoTimeout(p)
    \/ \E p \in Procs : StepProcessResponse(p)
    \/ \E p \in Procs : StepClose(p)
    \/ \E p \in Procs : StepCancel(p)
    \/ \E p \in Procs : CallerReturns(p)

\* one caller, every input
Spec == Init /\ [][Next]_vars

InitConc == InitWith(1..NumCallers)

NextConc ==
    \/ \E p \in Procs : SetFields(p, "MessageCard", TitleOf(p), "x", "")
    \/ \E p \in Procs, u \in ConcURLs : SendCall(p, u, TRUE)
    \/ \E p \in Procs : TimerFires(p)
    \/ \E p \in Procs : StepValidateWebhook(p)
    \/ \E p \in Procs : StepValidate(p)
    \/ \E p \in Procs : StepPrepare(p)
    \/ \E p \in Procs : StepPrepareRequest(p)
    \/ \E p \in Procs : StepDo(p)
    \/ \E p \in Procs, st \in ConcStatuses, b \in ConcBodies : EndpointResponds(p, st, b, TRUE)
    \/ \E p \in Procs : TransportFails(p)
    \/ \E p \in Procs : DoTimeout(p)
    \/ \E p \in Procs : StepProcessResponse(p)
    \/ \E p \in Procs : StepClose(p)
    \/ \E p \in Procs : StepCancel(p)
    \/ \E p \in Procs : CallerReturns(p)

\* NumCallers callers on one client, each with a card of its own
ConcSpec == InitConc /\ [][NextConc]_vars

\* Spec under the scheduling the runtime gives: a goroutine inside Send keeps
\* taking its steps, and the timer of context.WithTimeout fires once the
\* timeout has passed.  The endpoint and the caller owe nothing.
LiveSpec == Init /\ [][Next]_vars /\ WF_vars(SendStep(1)) /\ WF_vars(TimerFires(1))

----------------------------------------------------------------------------
(* Properties *)

Returning(p) == pc[p] \in {"close", "cancel", "done"}
Failed(p) == outcome[p] # Pending /\ outcome[p] # Nil

\* C1: for every response Send has read, the call succeeds exactly when the
\* status is below 299 and the body, trimmed of surrounding white space, is "1".
C1_SuccessIffTrimmedBodyIsToken ==
    \A p \in Procs :
        (pc[p] = "done" /\ response[p].present /\ response[p].readOK) =>
            ((outcome[p] = Nil) <=>
                (response[p].StatusCode < 299 /\ TrimSpace(response[p].Body) = "1"))

\* the host of a URL that starts with https://
HostOf(s) ==
    LET ends == {i \in 9..Len(s) : CharAt(s, i) \in {"/", "?", "#"}}
        stop == IF ends = {} THEN Len(s) + 1
                ELSE CHOOSE i \in ends : \A j \in ends : i <= j
    IN SubSeq(s, 9, stop - 1)

HasSuffix(h, suffix) ==
    /\ Len(h) > Len(suffix)
    /\ SubSeq(h, Len(h) - Len(suffix) + 1, Len(h)) = suffix

ApprovedDestination(s) ==
    /\ ~ParseFails(s)
    /\ HasPrefixAt(s, 1, "https://")
    /\ \/ HasSuffix(HostOf(s), ".webhook.office.com")
       \/ HasSuffix(HostOf(s), ".webhook.office365.com")
       \/ HostOf(s) \in {"outlook.office.com", "outlook.office365.com"}

\* C2: a destination passes ValidateWebhook only if its scheme is https and its
\* host is *.webhook.office.com, *.webhook.office365.com, outlook.office.com or
\* outlook.office365.com; for any other string Send issues no request.
C2_OnlyApprovedHostsAccepted ==
    \A p \in Procs :
        /\ (Len(trace[p]) >= 1 /\ trace[p][1].ok) => ApprovedDestination(url[p])
        /\ request[p].sent > 0 => ApprovedDestination(url[p])

SendOrder == <<"ValidateWebhook", "Validate", "Prepare", "prepareRequest", "Do", "processResponse">>

\* C3: the steps of a Send call run in the order of SendOrder, nothing runs
\* after the first failing step and the call then fails; a request is issued,
\* and the payload read, only after both validations and Prepare succeeded.
C3_StepsInOrder ==
    \A p \in Procs :
        /\ Len(trace[p]) <= Len(SendOrder)
        /\ \A i \in 1..Len(trace[p]) : trace[p][i].step = SendOrder[i]
        /\ \A i \in 1..(Len(trace[p]) - 1) : trace[p][i].ok
        /\ (Len(trace[p]) > 0 /\ ~trace[p][Len(trace[p])].ok) => (Failed(p) /\ Returning(p))
        /\ request[p].present =>
              /\ Len(trace[p]) >= 3
              /\ \A i \in 1..3 : trace[p][i].ok
              /\ card[p].payload.alloc
        /\ request[p].sent > 0 =>
              /\ Len(trace[p]) >= 4
              /\ \A i \in 1..4 : trace[p][i].ok
              /\ ValidateWebhook(url[p]) = NoError
              /\ Validate(card[p]) = NoError

\* a call that stopped at the message validation, and one that ran every step
C3_Witness ==
    \E p \in Procs :
        /\ pc[p] = "done"
        /\ Len(trace[p]) = 2
        /\ ~trace[p][2].ok
        /\ ~request[p].present

\* C4: the body of a response Send received is closed exactly once before the
\* call returns, whichever way response processing ended, and never twice.
C4_BodyClosedOnce ==
    \A p \in Procs :
        /\ response[p].closed <= 1
        /\ ~response[p].present => response[p].closed = 0
        /\ (pc[p] \in {"cancel", "done"} /\ response[p].present) => response[p].closed = 1

\* a call whose body could not be read has returned with the body closed
C4_Witness ==
    \E p \in Procs :
        /\ pc[p] = "done"
        /\ response[p].present
        /\ outcome[p].cause = ErrRead
        /\ response[p].closed = 1

\* C5: a response read with a status of 299 or more fails with the error that
\* carries the status and the body, whatever the body; the error that wraps
\* ErrInvalidResponseText, carrying the body, arises only for a status below
\* 299 with a body that is not "1".
C5_StatusBeforeBody ==
    \A p \in Procs :
        /\ (Returning(p) /\ response[p].present /\ response[p].readOK
                /\ response[p].StatusCode >= 299) =>
              outcome[p] = Err("failed to process response", ErrStatus,
                               response[p].StatusCode, response[p].Body)
        /\ outcome[p].cause = ErrInvalidResponseText =>
              /\ response[p].present
              /\ response[p].readOK
              /\ response[p].StatusCode < 299
              /\ response[p].Body # ExpectedEndpointResponseText
              /\ outcome[p] = Err("failed to process response", ErrInvalidResponseText,
                                  0, response[p].Body)

\* status 299 with the body "1" has ended in the status error
C5_Witness ==
    \E p \in Procs :
        /\ pc[p] = "done"
        /\ response[p].StatusCode = 299
        /\ response[p].Body = "1"
        /\ outcome[p].cause = ErrStatus

\* C6: a Send call issues at most one request, and once it has failed it only
\* returns: no step that could issue another request is left.
C6_NoRetry ==
    \A p \in Procs :
        /\ request[p].sent <= 1
        /\ Cardinality({i \in 1..Len(trace[p]) : trace[p][i].step = "Do"}) <= 1
        /\ Failed(p) => Returning(p)
        /\ pc[p] = "done" => outcome[p] # Pending

\* a call whose one request met a transport failure has returned that error
C6_Witness ==
    \E p \in Procs :
        /\ pc[p] = "done"
        /\ outcome[p] = Err("failed to send message", ErrTransport, 0, "")
        /\ request[p].sent = 1

Timeout == Err("failed to send message", ErrDeadline, 0, "")

\* C7: every Send call reaches its end; against an endpoint that never answers
\* the deadline ends the request in flight and the call returns the deadline
\* error, with no response classified; the timeout context is released
\* whenever Send has returned.
C7_SendTerminates ==
    /\ [](pc[1] = "done" => (ctx[1] = "cancelled" /\ outcome[1] # Pending))
    /\ []((pc[1] = "done" /\ ~endpointUp[1] /\ request[1].sent > 0) =>
            (outcome[1] = Timeout /\ ~response[1].present))
    /\ (pc[1] # "idle") ~> (pc[1] = "done")
    /\ (pc[1] = "inflight" /\ ~endpointUp[1]) ~> (pc[1] = "done" /\ outcome[1] = Timeout)

\* the request to an endpoint that never answers has ended in the deadline error
C7_Witness ==
    /\ pc[1] = "done"
    /\ ~endpointUp[1]
    /\ request[1].sent = 1
    /\ outcome[1] = Timeout
    /\ ctx[1] = "cancelled"

AllCards ==
    [Type : Types, Context : {"https://schema.org/extensions", ""}, Title : Titles,
     Text : Texts, Color : Colors, payload : {NilBuffer}]

ValidateAsClaimed(c) ==
    IF c.Title # "" /\ c.Text # "" THEN NoError
    ELSE IF c.Title = "" THEN ErrTitleRequired
    ELSE ErrTextRequired

\* C8: Validate succeeds exactly when Title and Text are both non-empty, reports
\* the title first, then the text, whatever Type, Context and Color hold, and
\* the Validate step of a Send leaves the card as it was.
C8_Validate ==
    [][ /\ \A c \in AllCards : Validate(c) = ValidateAsClaimed(c)
        /\ \A p \in Procs :
              (pc[p] = "validateMessage" /\ pc'[p] # "validateMessage") =>
                  /\ card'[p] = card[p]
                  /\ trace'[p][2].ok <=> (card[p].Title # "" /\ card[p].Text # "")
                  /\ pc'[p] = IF ValidateAsClaimed(card[p]) = NoError THEN "prepare" ELSE "cancel"
                  /\ ValidateAsClaimed(card[p]) # NoError =>
                        outcome'[p] = Err("failed to validate message",
                                          ValidateAsClaimed(card[p]), 0, "")
      ]_vars

\* a card with neither title nor text has been refused for its title
C8_Witness ==
    \E p \in Procs :
        /\ pc[p] = "done"
        /\ card[p].Title = ""
        /\ card[p].Text = ""
        /\ card[p].Color # ""
        /\ outcome[p] = Err("failed to validate message", ErrTitleRequired, 0, "")

\* a step that prepared card p: the payload was rewritten, the fields were not
Prepared(p) ==
    /\ card'[p].payload # card[p].payload
    /\ card'[p].payload.off = 0
    /\ [card'[p] EXCEPT !.payload = NilBuffer] = [card[p] EXCEPT !.payload = NilBuffer]

Contains(s, lit) == \E i \in 1..Len(s) : HasPrefixAt(s, i, lit)

\* the members a serialization of card c must and must not hold
MembersAsClaimed(body, c) ==
    /\ HasPrefixAt(body, 1, "{\"@type\":\"" \o c.Type \o "\",\"@context\":\"" \o c.Context \o "\"")
    /\ Contains(body, ",\"title\":\"" \o c.Title \o "\"") <=> c.Title # ""
    /\ Contains(body, ",\"text\":\"" \o c.Text \o "\"") <=> c.Text # ""
    /\ Contains(body, ",\"color\":\"" \o c.Color \o "\"") <=> c.Color # ""
    /\ Contains(body, "\"title\"") <=> c.Title # ""
    /\ Contains(body, "\"text\"") <=> c.Text # ""
    /\ Contains(body, "\"color\"") <=> c.Color # ""

\* C9: whatever was prepared, sent or read before, a Prepare leaves exactly
\* the serialization of the card's current fields to be read, and the body
\* of the request of a Send is that serialization.
C9_PayloadRegenerated ==
    [][ \A p \in Procs :
          /\ Prepared(p) => BufferBytes(card'[p].payload) = Marshal(card'[p])
          /\ pc'[p] = "prepareRequest" => BufferBytes(card'[p].payload) = Marshal(card'[p])
          /\ request'[p].present => request'[p].body = Marshal(card'[p])
          /\ (request'[p].present /\ ~request[p].present) =>
                MembersAsClaimed(request'[p].body, card'[p])
      ]_vars

\* a request carries the current serialization although Prepare found a partly
\* read earlier payload in the buffer
C9_Witness ==
    \E p \in Procs :
        /\ pc[p] = "do"
        /\ trace[p][3].partlyRead
        /\ card[p].Color # ""
        /\ request[p].body = Marshal(card[p])
        /\ card[p].payload.buf = Marshal(card[p])

\* what Send returns, from the call's own URL, card and response
OwnOutcome(p) ==
    IF ValidateWebhook(url[p]) # NoError
    THEN Err("webhook URL validation failed", ValidateWebhook(url[p]), 0, "")
    ELSE IF Validate(card[p]) # NoError
    THEN Err("failed to validate message", Validate(card[p]), 0, "")
    ELSE IF response[p].present
    THEN (IF processResponse(response[p]) = Nil THEN Nil
          ELSE Wrap("failed to process response", processResponse(response[p])))
    ELSE Err("failed to send message", outcome[p].cause, 0, "")

\* C10: with callers interleaved on one client, each request carries the
\* serialization of the caller's own card to the caller's own URL, each result
\* is the one the caller's own URL, card and response give, and the client is
\* never written.
C10_CallsIndependent ==
    /\ client = [httpClient |-> "http.Client{}"]
    /\ \A p \in Procs :
          /\ request[p].present =>
                (request[p].body = Marshal(card[p]) /\ request[p].url = url[p])
          /\ pc[p] = "done" => outcome[p] = OwnOutcome(p)

\* two calls in flight at once, with different bodies
C10_Witness ==
    \E p, q \in Procs :
        /\ p # q
        /\ pc[p] = "inflight"
        /\ pc[q] = "inflight"
        /\ request[p].body # request[q].body

====
